---- MODULE Spec2Model ----
(***************************************************************************)
(* Brace-balance maintenance scripts of the repository:                    *)
(*   fix_all_ts_files.py  whole-tree count-based repair, per-file handler  *)
(*   fix_braces2.py       routes-directory count-based repair, no handler  *)
(*   fix_braces.py        routes-directory pre-filter (regex) repair       *)
(* A file content is a sequence of one-character strings.  A directory is  *)
(* the sequence of its entries in the order the walk yields them; two      *)
(* entries may name the same file (hard link, symlink).                    *)
(***************************************************************************)
EXTENDS Integers, Sequences, FiniteSets, TLC

\* ------------------------------------------------------------------ bounds
\* the size of a directory: one unit per entry, one more per link or FIFO,
\* one per character
MaxSize == 4

\* the length of the one file of a directory with a single file
MaxLen == 5

\* ---------------------------------------------------------------- alphabet
Chars == {"{", "}", " ", "\n", "\r", "a"}
Whitespace == {" ", "\n", "\r"}

\* a file name: a stem and an extension; stdout cannot encode the stem
\* "\\xff", which is given to a file every script selects
Exts == {".ts", ".tsx", ".md"}
Names == [stem : {"k"}, ext : Exts] \cup [stem : {"\\xff"}, ext : {".ts"}]

\* os.linesep: "\n" (POSIX) or "\r\n" (Windows, the platform of the paths)
LineSeps == {<<"\n">>, <<"\r", "\n">>}

\* a directory entry names a regular file or a FIFO nobody writes to
Kinds == {"file", "fifo"}
Scripts == {"fix_all_ts_files", "fix_braces2", "fix_braces"}

VARIABLES
  script,     \* which script runs
  names,      \* names[i]: the name of the i-th entry of the walk
  linesep,    \* os.linesep of the platform the script runs on
  node,       \* node[i]: the first entry that names the file entry i names
  kind,       \* kind[i]: what entry i names
  fs,         \* fs[i]: the content on disk of the file entry i names
  start,      \* start[i]: the content of file i when the current run began
  original,   \* original[i]: the content the visit of entry i read
  run,        \* "first" or "second" invocation of the script
  idx,        \* position of the walk
  pc,         \* where the script is inside the loop body
  content,    \* the script's variable 'content' once the file is read
  handles,    \* the open file objects, <<file, mode>>
  written,    \* the entries whose visit opened the file for writing, this run
  report,     \* the 'Added'/'Fixed' lines printed in the current run
  prevReport, \* the lines printed by the previous run
  errlog,     \* the 'Error processing' lines printed in the current run
  failed      \* <<run, entry>>: where an operation raised (0: the listing,
              \* NumFiles + 1: the last print)

\* the script, the platform and the directory entries: no step changes them
tree == <<script, names, linesep, node, kind>>

vars == <<tree, fs, start, original, run, idx, pc, content, handles, written,
          report, prevReport, errlog, failed>>

\* ------------------------------------------------------- string primitives
\* str.count(ch)
Count(s, ch) == Cardinality({i \in DOMAIN s : s[i] = ch})

IsSpace(ch) == ch \in Whitespace

\* variant: content.strip(), which also drops leading whitespace
RStrip_BothEnds(s) ==
  LET keep == {i \in DOMAIN s : ~IsSpace(s[i])}
      first == IF keep = {} THEN 1 ELSE CHOOSE i \in keep : \A j \in keep : i <= j
      last == IF keep = {} THEN 0 ELSE CHOOSE i \in keep : \A j \in keep : j <= i
  IN SubSeq(s, first, last)

\* f.read() of a file opened in text mode with newline=None: '\r\n' and a
\* lone '\r' are read as '\n'
RECURSIVE Decode(_)
Decode(s) ==
  IF s = <<>> THEN <<>>
  ELSE IF s[1] = "\r"
       THEN IF Len(s) >= 2 /\ s[2] = "\n"
            THEN <<"\n">> \o Decode(SubSeq(s, 3, Len(s)))
            ELSE <<"\n">> \o Decode(SubSeq(s, 2, Len(s)))
       ELSE <<s[1]>> \o Decode(SubSeq(s, 2, Len(s)))

\* f.write() of a file opened in text mode with newline=None: every '\n' is
\* written as os.linesep
RECURSIVE Encode(_, _)
Encode(s, sep) ==
  IF s = <<>> THEN <<>>
  ELSE (IF s[1] = "\n" THEN sep ELSE <<s[1]>>) \o Encode(SubSeq(s, 2, Len(s)), sep)

\* str.rstrip(): drop the trailing run of whitespace characters
RStrip(s) ==
  LET keep == {i \in DOMAIN s : ~IsSpace(s[i])}
      last == IF keep = {} THEN 0 ELSE CHOOSE i \in keep : \A j \in keep : j <= i
  IN SubSeq(s, 1, last)

\* unit * n (a non-positive n yields the empty string)
RECURSIVE Repeat(_, _)
Repeat(unit, n) == IF n <= 0 THEN <<>> ELSE unit \o Repeat(unit, n - 1)

\* ----------------------------------------------------- count-based repair
\* variant: if open_braces != close_braces:
NeedsRepair_NotEqual(open, close) == open /= close

\* if open_braces > close_braces:
NeedsRepair(open, close) == open > close

\* variant: one closing brace too few
Missing_OffByOne(open, close) == open - close - 1

\* missing = open_braces - close_braces
Missing(open, close) == open - close

\* variant: no line break between the trimmed content and the braces
Repair_NoBreak(s, missing) == RStrip(s) \o Repeat(<<"}", "\n">>, missing)

\* variant: the wrong delimiter is appended
Repair_WrongBrace(s, missing) ==
  RStrip(s) \o <<"\n">> \o Repeat(<<"{", "\n">>, missing)

\* content.rstrip() + '\n' + ('}\n' * missing)
Repair(s, missing) == RStrip(s) \o <<"\n">> \o Repeat(<<"}", "\n">>, missing)

\* the in-memory content after the count-and-repair block
FixCounts(s) ==
  LET open == Count(s, "{")
      close == Count(s, "}")
  IN IF NeedsRepair(open, close) THEN Repair(s, Missing(open, close)) ELSE s

\* ------------------------------------------------------ pre-filter repair
\* '$' without MULTILINE: end of string, or just before a final line break
AtEnd(s, e) == e = Len(s) \/ (e = Len(s) - 1 /\ s[Len(s)] = "\n")

\* all matches <<i, k, e>> of  } \s* \n } \s* $ : '}' at i, line break at k,
\* second '}' at k+1, match ends after position e
Matches(s) ==
  {m \in (DOMAIN s) \X (DOMAIN s) \X (0..Len(s)) :
     /\ m[1] < m[2]
     /\ s[m[1]] = "}"
     /\ \A j \in (m[1] + 1)..(m[2] - 1) : IsSpace(s[j])
     /\ s[m[2]] = "\n"
     /\ m[2] + 1 <= Len(s)
     /\ s[m[2] + 1] = "}"
     /\ m[3] >= m[2] + 1
     /\ \A j \in (m[2] + 2)..m[3] : IsSpace(s[j])
     /\ AtEnd(s, m[3])}

\* re.search(r'}\s*\n}\s*$', content)
PatternFound(s) == Matches(s) /= {}

\* variant: the match is replaced by the empty string instead of group 1
DropLastBrace_Both(s) ==
  IF Matches(s) = {} THEN s
  ELSE LET ms == Matches(s)
           i == CHOOSE x \in {m[1] : m \in ms} : \A m \in ms : x <= m[1]
       IN SubSeq(s, 1, i - 1)

\* re.sub(r'(}\s*\n)}\s*$', r'\1', content): leftmost match, greedy
\* quantifiers; the match is replaced by its group 1
DropLastBrace(s) ==
  IF Matches(s) = {} THEN s
  ELSE LET ms == Matches(s)
           i == CHOOSE x \in {m[1] : m \in ms} : \A m \in ms : x <= m[1]
           mi == {m \in ms : m[1] = i}
           k == CHOOSE x \in {m[2] : m \in mi} : \A m \in mi : m[2] <= x
           mk == {m \in mi : m[2] = k}
           e == CHOOSE x \in {m[3] : m \in mk} : \A m \in mk : m[3] <= x
       IN SubSeq(s, 1, k) \o SubSeq(s, e + 1, Len(s))

\* ------------------------------------------------------------ the scripts
\* filename.endswith('.ts') [or filename.endswith('.tsx')]
Selected(sc, name) ==
  IF sc = "fix_all_ts_files" THEN name.ext \in {".ts", ".tsx"} ELSE name.ext = ".ts"

\* print(...) of a line naming the file: raises UnicodeEncodeError when
\* stdout cannot encode the name
Printable(name) == name.stem /= "\\xff"

\* try: ... except Exception as e  (only the whole-tree script has one)
Caught(sc, exc) == sc = "fix_all_ts_files"

\* variant: the file object is never closed
WithExit_Leak(hs, h) == hs

\* leaving a 'with open(...) as f' block closes f, also on an exception
WithExit(hs, h) == hs \ {h}

\* the content the script holds after its repair block
NewContent(sc, s) == IF sc = "fix_braces" THEN DropLastBrace(s) ELSE FixCounts(s)

\* does the script go on to open the file for writing?
WillWrite(sc, s) ==
  IF sc = "fix_braces" THEN PatternFound(s) ELSE FixCounts(s) /= s

\* the 'Added N closing brace(s)' line, printed before the write
Added(sc, s, i) ==
  IF sc /= "fix_braces" /\ NeedsRepair(Count(s, "{"), Count(s, "}"))
  THEN <<[file |-> i, added |-> Missing(Count(s, "{"), Count(s, "}"))]>>
  ELSE <<>>

\* the 'Fixed: name' line, printed after the write
Fixed(sc, i) == IF sc = "fix_braces" THEN <<[file |-> i, added |-> -1]>> ELSE <<>>

\* ------------------------------------------------------------------ Init
\* the texts of at most n characters
Texts(n) == UNION {[1..m -> Chars] : m \in 0..n}

\* the ways k directory entries name files: entry i names a file of its own
\* (nd[i] = i) or, as a hard link or symlink, the file of an earlier entry
Links(k) == {nd \in [1..k -> 1..k] :
               \A i \in 1..k : nd[i] <= i /\ nd[nd[i]] = nd[i]}

\* the kinds of the k entries: a link names a regular file
EntryKinds(k, nd) == {kd \in [1..k -> Kinds] :
                        \A i \in 1..k : nd[i] /= i =>
                          kd[i] = "file" /\ kd[nd[i]] = "file"}

\* cut points splitting a text of length n into k consecutive pieces, empty
\* for the entries outside own
Cuts(k, n, own) == {c \in [0..k -> 0..n] :
                      /\ c[0] = 0
                      /\ c[k] = n
                      /\ \A i \in 1..k : c[i - 1] <= c[i]
                      /\ \A i \in 1..k : i \notin own => c[i - 1] = c[i]}

\* the entries that are links or FIFOs
Special(k, nd, kd) == {i \in 1..k : nd[i] /= i \/ kd[i] = "fifo"}

\* the number of entries the listing yields
NumFiles == Len(fs)

\* the state of a script about to start on the directory with entries nm,
\* links nd, kinds kd and contents f
Start(sc, sep, nm, nd, kd, f) ==
  /\ script = sc
  /\ names = nm
  /\ linesep = sep
  /\ node = nd
  /\ kind = kd
  /\ fs = f
  /\ start = f
  /\ original = f
  /\ run = "first"
  /\ idx = 1
  /\ pc = "list"
  /\ content = <<>>
  /\ handles = {}
  /\ written = {}
  /\ report = <<>>
  /\ prevReport = <<>>
  /\ errlog = <<>>
  /\ failed = {}

\* every directory of size at most MaxSize, in every order of its entries,
\* under each of the scripts
Init ==
  \E sc \in Scripts, sep \in LineSeps, k \in 0..MaxSize :
    \E nd \in Links(k) :
      \E kd \in EntryKinds(k, nd), nm \in [1..k -> Names] :
        \E t \in Texts(MaxSize - k - Cardinality(Special(k, nd, kd))) :
        \E c \in Cuts(k, Len(t), (1..k) \ Special(k, nd, kd)) :
          Start(sc, sep, nm, nd, kd,
                [i \in 1..k |-> SubSeq(t, c[nd[i] - 1] + 1, c[nd[i]])])

\* the characters the pattern of fix_braces.py tells apart: '}', the line
\* breaks, other whitespace, any other character
BraceChars == {"{", "}", " ", "\n", "\r"}

\* the names of the single file: selected or not
FileNames == {[stem |-> "k", ext |-> ".ts"], [stem |-> "k", ext |-> ".md"]}

\* every directory with a single regular file of at most MaxLen characters,
\* under one name or two, under each of the scripts
InitOneFile ==
  \E sc \in Scripts, sep \in LineSeps, k \in 1..2 :
    \E nm \in [1..k -> FileNames], m \in 0..MaxLen :
      \E t \in [1..m -> BraceChars] :
        Start(sc, sep, nm, [i \in 1..k |-> 1], [i \in 1..k |-> "file"],
              [i \in 1..k |-> t])

\* --------------------------------------------------------------- actions
\* the disk after content s is stored in the file entry i names: every
\* entry that names the same file shows s
Store(f, i, s) == [j \in DOMAIN f |-> IF node[j] = node[i] THEN s ELSE f[j]]

\* open(filepath, 'r') of a FIFO nobody writes to never returns a file
\* object: it blocks, unless it raises at once (no permission to read)
Blocks(i) == kind[i] = "fifo"

\* os.walk(app_dir) / os.listdir(routes_dir) yields the entries
ListDir ==
  /\ pc = "list"
  /\ pc' = "walk"
  /\ UNCHANGED <<tree, fs, start, original, run, idx, content, handles,
                 written, report, prevReport, errlog, failed>>

\* os.listdir(routes_dir) raises OSError (no such directory, no permission):
\* nothing catches it.  os.walk ignores the error and yields nothing, which
\* is the walk of an empty directory
ListDirFails ==
  /\ pc = "list"
  /\ script /= "fix_all_ts_files"
  /\ pc' = "crashed"
  /\ failed' = failed \cup {<<run, 0>>}
  /\ UNCHANGED <<tree, fs, start, original, run, idx, content, handles,
                 written, report, prevReport, errlog>>

\* an exception raised while file idx is processed: the handler, where
\* there is one, prints the path and the loop goes on; when that print
\* raises too (stdout cannot encode the path, or cannot be written), or
\* there is no handler, the script ends with a traceback
Raise(exc) ==
  /\ failed' = failed \cup {<<run, idx>>}
  /\ \/ /\ Caught(script, exc) /\ Printable(names[idx])
        /\ errlog' = Append(errlog, idx)
        /\ idx' = idx + 1
        /\ pc' = "walk"
     \/ /\ errlog' = errlog
        /\ idx' = idx
        /\ pc' = "crashed"

\* a directory entry the extension filter rejects
SkipFile ==
  /\ pc = "walk" /\ idx <= NumFiles
  /\ ~Selected(script, names[idx])
  /\ idx' = idx + 1
  /\ UNCHANGED <<tree, fs, start, original, run, pc, content, handles,
                 written, report, prevReport, errlog, failed>>

\* open(filepath, 'r', encoding='utf-8') succeeds
OpenRead ==
  /\ pc = "walk" /\ idx <= NumFiles
  /\ Selected(script, names[idx])
  /\ ~Blocks(idx)
  /\ handles' = handles \cup {<<idx, "r">>}
  /\ pc' = "reading"
  /\ UNCHANGED <<tree, fs, start, original, run, idx, content, written,
                 report, prevReport, errlog, failed>>

\* open(filepath, 'r') raises OSError
OpenReadFails ==
  /\ pc = "walk" /\ idx <= NumFiles
  /\ Selected(script, names[idx])
  /\ Raise("OSError")
  /\ UNCHANGED <<tree, fs, start, original, run, content, handles,
                 written, report, prevReport>>

\* f.read() succeeds, the with block closes f, the repair block runs and
\* prints its 'Added' line, if any
ReadClose ==
  /\ pc = "reading"
  /\ Added(script, Decode(fs[idx]), idx) = <<>> \/ Printable(names[idx])
  /\ handles' = WithExit(handles, <<idx, "r">>)
  /\ original' = [original EXCEPT ![idx] = fs[idx]]
  /\ content' = NewContent(script, Decode(fs[idx]))
  /\ report' = report \o Added(script, Decode(fs[idx]), idx)
  /\ IF WillWrite(script, Decode(fs[idx]))
     THEN /\ pc' = "modified"
          /\ idx' = idx
     ELSE /\ pc' = "walk"
          /\ idx' = idx + 1
  /\ UNCHANGED <<tree, fs, start, run, written, prevReport, errlog, failed>>

\* f.read() succeeds and the repair block runs, but print of the 'Added'
\* line raises (UnicodeEncodeError on the name, OSError on stdout)
AddedFails ==
  /\ pc = "reading"
  /\ Added(script, Decode(fs[idx]), idx) /= <<>>
  /\ handles' = WithExit(handles, <<idx, "r">>)
  /\ original' = [original EXCEPT ![idx] = fs[idx]]
  /\ content' = NewContent(script, Decode(fs[idx]))
  /\ \E exc \in {"UnicodeEncodeError", "OSError"} : Raise(exc)
  /\ UNCHANGED <<tree, fs, start, run, written, report, prevReport>>

\* f.read() raises (UnicodeDecodeError, OSError); the with block closes f
ReadFails ==
  /\ pc = "reading"
  /\ handles' = WithExit(handles, <<idx, "r">>)
  /\ \E exc \in {"UnicodeDecodeError", "OSError"} : Raise(exc)
  /\ UNCHANGED <<tree, fs, start, original, run, content, written, report,
                 prevReport>>

\* open(filepath, 'w', encoding='utf-8') succeeds and truncates the file
OpenWrite ==
  /\ pc = "modified"
  /\ handles' = handles \cup {<<idx, "w">>}
  /\ fs' = Store(fs, idx, <<>>)
  /\ written' = written \cup {idx}
  /\ pc' = "writing"
  /\ UNCHANGED <<tree, start, original, run, idx, content, report,
                 prevReport, errlog, failed>>

\* open(filepath, 'w') raises OSError: the file is left as it was
OpenWriteFails ==
  /\ pc = "modified"
  /\ Raise("OSError")
  /\ UNCHANGED <<tree, fs, start, original, run, content, handles, written,
                 report, prevReport>>

\* f.write(content) succeeds, the with block closes f, the 'Fixed' line, if
\* any, is printed
WriteClose ==
  /\ pc = "writing"
  /\ Fixed(script, idx) = <<>> \/ Printable(names[idx])
  /\ fs' = Store(fs, idx, Encode(content, linesep))
  /\ handles' = WithExit(handles, <<idx, "w">>)
  /\ report' = report \o Fixed(script, idx)
  /\ content' = content
  /\ idx' = idx + 1
  /\ pc' = "walk"
  /\ UNCHANGED <<tree, start, original, run, written, prevReport, errlog,
                 failed>>

\* f.write(content) succeeds and the with block closes f, but print of the
\* 'Fixed' line raises (UnicodeEncodeError on the name, OSError on stdout)
FixedFails ==
  /\ pc = "writing"
  /\ Fixed(script, idx) /= <<>>
  /\ fs' = Store(fs, idx, Encode(content, linesep))
  /\ handles' = WithExit(handles, <<idx, "w">>)
  /\ \E exc \in {"UnicodeEncodeError", "OSError"} : Raise(exc)
  /\ UNCHANGED <<tree, start, original, run, content, written, report,
                 prevReport>>

\* the write raises OSError after only part of the content reached the disk
WriteFails ==
  /\ pc = "writing"
  /\ \E n \in 0..(Len(Encode(content, linesep)) - 1) :
       fs' = Store(fs, idx, SubSeq(Encode(content, linesep), 1, n))
  /\ handles' = WithExit(handles, <<idx, "w">>)
  /\ Raise("OSError")
  /\ UNCHANGED <<tree, start, original, run, content, written, report,
                 prevReport>>

\* print("Done!")
Finish ==
  /\ pc = "walk" /\ idx = NumFiles + 1
  /\ pc' = "done"
  /\ UNCHANGED <<tree, fs, start, original, run, idx, content, handles,
                 written, report, prevReport, errlog, failed>>

\* print("Done!") raises OSError (stdout cannot be written): the script
\* ends with a traceback
FinishFails ==
  /\ pc = "walk" /\ idx = NumFiles + 1
  /\ pc' = "crashed"
  /\ failed' = failed \cup {<<run, idx>>}
  /\ UNCHANGED <<tree, fs, start, original, run, idx, content, handles,
                 written, report, prevReport, errlog>>

\* once a run has ended, with 'Done!' or with a traceback, the same script
\* is started a second time on the directory as the first run left it
Rerun ==
  /\ pc \in {"done", "crashed"}
  /\ run = "first"
  /\ run' = "second"
  /\ start' = fs
  /\ original' = fs
  /\ idx' = 1
  /\ pc' = "list"
  /\ content' = <<>>
  /\ written' = {}
  /\ prevReport' = report
  /\ report' = <<>>
  /\ errlog' = <<>>
  /\ UNCHANGED <<tree, fs, handles, failed>>

\* the steps of one run of a script
Steps ==
  \/ ListDir
  \/ ListDirFails
  \/ SkipFile
  \/ OpenRead
  \/ OpenReadFails
  \/ ReadClose
  \/ AddedFails
  \/ ReadFails
  \/ OpenWrite
  \/ OpenWriteFails
  \/ WriteClose
  \/ FixedFails
  \/ WriteFails
  \/ Finish
  \/ FinishFails

\* one run of a script on a directory
Spec == Init /\ [][Steps]_vars

\* one run of a script on a directory with a single file
SpecOneFile == InitOneFile /\ [][Steps]_vars

\* the script is in open(filepath, 'r') of a FIFO
Blocked ==
  /\ pc = "walk" /\ idx <= NumFiles
  /\ Selected(script, names[idx])
  /\ Blocks(idx)

\* one run; the interpreter always takes the next step of a running script,
\* but open of a FIFO need not return
FairSpec == Spec /\ WF_vars(Steps /\ ~Blocked)

\* a run, possibly followed by a second one
Next ==
  \/ Steps
  \/ Rerun

SpecTwice == Init /\ [][Next]_vars

\* ============================================================ properties
CountBased == script \in {"fix_all_ts_files", "fix_braces2"}

Picked(i) == Selected(script, names[i])

\* the walk of the current run has moved past file i
Past(i) == i < idx

\* no operation of the visit of entry i raised in the current run
Clean(i) == <<run, i>> \notin failed

\* the file entry i names was opened for writing in the current run
FileWritten(i) == \E j \in written : node[j] = node[i]

\* the visit of entry i is the last one that wrote the file entry i names
LastWrite(i) == i \in written /\ \A j \in written : node[j] = node[i] => j <= i

Opens(s) == Count(s, "{")
Closes(s) == Count(s, "}")

\* s without its trailing whitespace, character by character
RECURSIVE TrimEnd(_)
TrimEnd(s) ==
  IF s = <<>> THEN s
  ELSE IF s[Len(s)] \in {" ", "\n", "\r"} THEN TrimEnd(SubSeq(s, 1, Len(s) - 1))
  ELSE s

\* s as a text: a '\r' right before a '\n' is dropped, any other '\r' is a
\* line break of its own
AsText(s) ==
  LET keep == {i \in DOMAIN s : ~(s[i] = "\r" /\ i < Len(s) /\ s[i + 1] = "\n")}
      at(j) == CHOOSE i \in keep : Cardinality({k \in keep : k <= i}) = j
  IN [j \in 1..Cardinality(keep) |-> IF s[at(j)] = "\r" THEN "\n" ELSE s[at(j)]]

\* n lines, each a single '}', as they are on disk
RECURSIVE DiskBraceLines(_)
DiskBraceLines(n) ==
  IF n = 0 THEN <<>> ELSE <<"}">> \o linesep \o DiskBraceLines(n - 1)

IsPrefix(p, s) == Len(p) <= Len(s) /\ SubSeq(s, 1, Len(p)) = p

Rest(s, n) == SubSeq(s, n + 1, Len(s))

\* n lines, each a single '}'
RECURSIVE BraceLines(_)
BraceLines(n) == IF n = 0 THEN <<>> ELSE <<"}", "\n">> \o BraceLines(n - 1)

\* ---------------------------------------------------------------------- C1
\* C1 as stated: after a count-based run without I/O error every processed
\* file has as many '{' as '}'.
C1_Balanced ==
  (pc = "done" /\ CountBased /\ failed = {}) =>
    \A i \in 1..NumFiles : Picked(i) => Opens(fs[i]) = Closes(fs[i])

\* C1 amended: after a count-based run without I/O error no processed file
\* has more '{' than '}'; a file that began with at least as many '{' as '}'
\* ends balanced, one that began with more '}' than '{' keeps its surplus.
C1_NoMissingClose ==
  (pc = "done" /\ CountBased /\ failed = {}) =>
    \A i \in 1..NumFiles : Picked(i) =>
      /\ Opens(fs[i]) <= Closes(fs[i])
      /\ Opens(start[i]) >= Closes(start[i]) => Opens(fs[i]) = Closes(fs[i])
      /\ Opens(start[i]) < Closes(start[i]) =>
           Closes(fs[i]) - Opens(fs[i]) = Closes(start[i]) - Opens(start[i])

C1_Witness ==
  /\ pc = "done" /\ CountBased /\ failed = {}
  /\ \E i, j \in 1..NumFiles :
       /\ Picked(i) /\ Opens(start[i]) > Closes(start[i])
       /\ Opens(fs[i]) = Closes(fs[i])
       /\ Picked(j) /\ Opens(fs[j]) < Closes(fs[j])

\* ---------------------------------------------------------------------- C2
\* C2 as stated: a file the visit finds with more '{' than '}' is rewritten
\* to exactly its original content without trailing whitespace, one line
\* break, then (open - close) lines '}'; the result is balanced.
C2_ExactContent ==
  CountBased =>
    \A i \in 1..NumFiles :
      (Picked(i) /\ Past(i) /\ Clean(i)
         /\ Opens(original[i]) > Closes(original[i])) =>
        /\ fs[i] = TrimEnd(original[i]) \o linesep
                     \o DiskBraceLines(Opens(original[i]) - Closes(original[i]))
        /\ Opens(fs[i]) = Closes(fs[i])

\* C2 amended: read as text (CRLF and CR taken as line breaks), the rewritten
\* file is the original text without trailing whitespace, one line break,
\* then (open - close) lines '}'; the result is balanced.
C2_RepairedContent ==
  CountBased =>
    \A i \in 1..NumFiles :
      (Picked(i) /\ Past(i) /\ Clean(i)
         /\ Opens(original[i]) > Closes(original[i])) =>
        /\ AsText(fs[i]) = TrimEnd(AsText(original[i])) \o <<"\n">>
                             \o BraceLines(Opens(original[i]) - Closes(original[i]))
        /\ Opens(fs[i]) = Closes(fs[i])
        /\ i \in written

C2_Witness ==
  /\ CountBased
  /\ \E i \in 1..NumFiles :
       /\ Picked(i) /\ Past(i) /\ Clean(i)
       /\ Opens(original[i]) - Closes(original[i]) = 1
       /\ Closes(fs[i]) = Closes(original[i]) + 1
       /\ \E k \in DOMAIN original[i] :
            original[i][k] = "\r" /\ k < Len(TrimEnd(original[i]))
       /\ \A k \in DOMAIN fs[i] : fs[i][k] /= "\r"

\* ---------------------------------------------------------------------- C3
\* C3: a file with at most as many '{' as '}' is never opened for writing by
\* the count-based repair and keeps its content byte for byte.
C3_Untouched ==
  CountBased =>
    \A i \in 1..NumFiles :
      Opens(start[i]) <= Closes(start[i]) =>
        ~FileWritten(i) /\ fs[i] = start[i]

C3_Witness ==
  /\ CountBased /\ pc = "done"
  /\ \E i \in 1..NumFiles :
       /\ Picked(i) /\ Clean(i)
       /\ Opens(start[i]) <= Closes(start[i])
       /\ start[i] /= <<>> /\ start[i][Len(start[i])] = " "
       /\ fs[i] = start[i]

\* ---------------------------------------------------------------------- C4
\* C4: a second count-based run right after a first one, neither meeting an
\* I/O error, writes no file, changes no content and reports nothing.
C4_Idempotent ==
  (CountBased /\ run = "second" /\ failed = {}) =>
    /\ fs = start
    /\ written = {}
    /\ report = <<>>
    /\ pc \notin {"modified", "writing"}

C4_Witness ==
  /\ CountBased /\ run = "second" /\ failed = {} /\ pc = "done"
  /\ prevReport /= <<>>
  /\ fs = start
  /\ \E i, j \in 1..NumFiles :
       /\ i < j /\ node[j] = i /\ Picked(j)
       /\ fs[j] /= <<>> /\ Opens(fs[j]) = Closes(fs[j])

\* ---------------------------------------------------------------------- C5
\* the files named in the error log of the current run
Logged == {errlog[k] : k \in DOMAIN errlog}

\* C5 as stated: in fix_all_ts_files.py every failure on a file is caught and
\* logged with its file, the later files are still processed, and the run
\* reaches its last statement, print('Done!').
C5_FailuresNotFatal ==
  /\ [](script = "fix_all_ts_files" /\ <<run, NumFiles + 1>> \notin failed =>
          /\ pc /= "crashed"
          /\ Logged = {i \in 1..NumFiles : ~Clean(i)})
  /\ [](script = "fix_all_ts_files" /\ pc = "done" =>
          \A i \in 1..NumFiles : (Picked(i) /\ Clean(i)) =>
            IF Opens(start[i]) > Closes(start[i])
            THEN FileWritten(i) /\ Opens(fs[i]) = Closes(fs[i])
            ELSE ~FileWritten(i) /\ fs[i] = start[i])
  /\ (script = "fix_all_ts_files") ~>
       (pc = "done" \/ <<run, NumFiles + 1>> \in failed)

\* ---------------------------------------------------------------------- C6
\* C6 as stated: in fix_braces2.py and fix_braces.py, when the listing and
\* the last print succeed, a failing file is skipped, the remaining files
\* are processed and the process exits normally.
C6_VariantsSurviveFailure ==
  (script \in {"fix_braces2", "fix_braces"}
   /\ <<run, 0>> \notin failed /\ <<run, NumFiles + 1>> \notin failed) =>
    /\ pc /= "crashed"
    /\ pc = "done" => \A i \in 1..NumFiles : Picked(i) /\ Clean(i) =>
                        (fs[i] /= start[i] <=> FileWritten(i))

\* ---------------------------------------------------------------------- C7
\* the files the report of the current run names, in order
ReportFiles == [k \in DOMAIN report |-> node[report[k].file]]

\* the files whose content on disk differs from the start of the run
Changed == {i \in 1..NumFiles : node[i] = i /\ fs[i] /= start[i]}

\* C7 as stated: the report has an entry for a file exactly if the run
\* changed the file on disk, in processing order, with open - close as the
\* number of braces added.
C7_ReportIffChanged ==
  (script = "fix_all_ts_files" /\ pc = "done") =>
    /\ {ReportFiles[k] : k \in DOMAIN report} = Changed
    /\ Len(report) = Cardinality(Changed)
    /\ \A k \in DOMAIN report :
         /\ k > 1 => report[k - 1].file < report[k].file
         /\ report[k].added =
              Opens(original[report[k].file]) - Closes(original[report[k].file])

\* ---------------------------------------------------------------------- C8
\* C8: at most one file is open at any time; nothing is open between the
\* read and the write of a file, between two files, or after an error.
C8_OneHandle ==
  /\ Cardinality(handles) <= 1
  /\ pc = "reading" => handles = {<<idx, "r">>}
  /\ pc = "writing" => handles = {<<idx, "w">>}
  /\ pc \in {"walk", "modified", "done", "crashed"} => handles = {}

C8_Witness ==
  /\ pc = "writing"
  /\ handles = {<<idx, "w">>}
  /\ \E i \in 1..NumFiles : i < idx /\ ~Clean(i)

\* ---------------------------------------------------------------------- C9
OnlyBracesAndBreaks(s) == \A k \in DOMAIN s : s[k] \in {"}", "\n"}

OnlySpace(s) == \A k \in DOMAIN s : s[k] \in {" ", "\n", "\r"}

\* C9 as stated: a file a visit has rewritten starts with the whole content
\* the visit read and continues with closing delimiters and line breaks only.
C9_OnlyAppends ==
  \A i \in 1..NumFiles :
    (Past(i) /\ Clean(i) /\ LastWrite(i)) =>
      /\ IsPrefix(original[i], fs[i])
      /\ OnlyBracesAndBreaks(AsText(Rest(fs[i], Len(original[i]))))

\* C9 amended: read as text (CRLF and CR taken as line breaks), a rewrite by
\* the count-based repair drops trailing whitespace only: the rewritten text
\* starts with the text read up to its last non-whitespace character and
\* continues with closing delimiters and line breaks only; fix_braces.py
\* only cuts a tail made of one '}' and whitespace.
C9_OnlyTrailingRemoved ==
  \A i \in 1..NumFiles :
    (Past(i) /\ Clean(i) /\ LastWrite(i)) =>
      LET old == AsText(original[i])
          new == AsText(fs[i])
      IN IF CountBased
         THEN \E n \in 0..Len(old) :
                /\ IsPrefix(SubSeq(old, 1, n), new)
                /\ OnlySpace(Rest(old, n))
                /\ OnlyBracesAndBreaks(Rest(new, n))
                /\ Closes(new) > Closes(old)
         ELSE /\ IsPrefix(new, old)
              /\ Len(new) < Len(old)
              /\ old[Len(new) + 1] = "}"
              /\ OnlySpace(Rest(old, Len(new) + 1))

\* fix_braces.py rewrites a file under its second name, after it rewrote
\* it under the first: the tail it cuts is a '}' and the line break after it
C9_Witness ==
  /\ script = "fix_braces" /\ pc = "done" /\ failed = {}
  /\ written = {1, 2} /\ node[2] = 1
  /\ original[2] /= start[2]
  /\ IsPrefix(AsText(fs[2]), AsText(original[2]))
  /\ Len(AsText(original[2])) > Len(AsText(fs[2])) + 1
  /\ Closes(fs[2]) = Closes(start[2]) - 2

\* --------------------------------------------------------------------- C10
\* s ends with a line closed by '}' followed by a last '}' and whitespace
EndsWithTwoBraceLines(s) ==
  LET t == TrimEnd(s)
      u == SubSeq(t, 1, Len(t) - 1)
  IN /\ t /= <<>> /\ t[Len(t)] = "}"
     /\ u /= <<>> /\ u[Len(u)] \in {"\n", "\r"}
     /\ TrimEnd(u) /= <<>> /\ TrimEnd(u)[Len(TrimEnd(u))] = "}"

\* C10: the visit of an entry by fix_braces.py rewrites the file exactly if
\* the entry is named '.ts' and the content read ends with a '}' line
\* followed by a final '}'; the rewritten file has one '}' fewer than the
\* content read and as many '{'; a file no visit rewrites keeps its content.
C10_PreFilter ==
  script = "fix_braces" =>
    \A i \in 1..NumFiles :
      /\ (i \in written) =>
           (names[i].ext = ".ts" /\ EndsWithTwoBraceLines(original[i]))
      /\ ~FileWritten(i) => fs[i] = start[i]
      /\ (Past(i) /\ Clean(i) /\ names[i].ext = ".ts"
          /\ EndsWithTwoBraceLines(original[i])) =>
           /\ i \in written
           /\ LastWrite(i) =>
                /\ Closes(fs[i]) = Closes(original[i]) - 1
                /\ Opens(fs[i]) = Opens(original[i])
                /\ fs[i] /= original[i]

C10_Witness ==
  /\ script = "fix_braces" /\ pc = "done"
  /\ \E i \in 1..NumFiles :
       /\ LastWrite(i) /\ Clean(i)
       /\ Closes(fs[i]) = Closes(original[i]) - 1
       /\ Closes(fs[i]) >= 1
       /\ Opens(original[i]) >= 1 /\ Opens(fs[i]) = Opens(original[i])
       /\ original[i][Len(original[i])] \in {"\n", "\r", " "}
====
